---- MODULE Spec2Model ----
(***************************************************************************)
(* A model of examples/basic_operations.py: the client of the FGP Vercel   *)
(* daemon.  call_daemon sends one JSON line over a Unix stream socket and  *)
(* reads one JSON line back; five presentation routines print the decoded  *)
(* mapping; the top-level script checks health and runs two of them.       *)
(*                                                                         *)
(* Bytes.  A byte string is a sequence of tokens [k, v].  The punctuation  *)
(* tokens are single bytes: "{", "}", ",", " ", "\n" and "0xff" (a byte    *)
(* that is not valid UTF-8).  A member token [k |-> key, v |-> value] is   *)
(* the run of bytes that spells  "key": value  in compact JSON, with every *)
(* control character of a string escaped as json.dumps escapes it, so a    *)
(* member token holds no raw newline.  A JSON mapping is a function from   *)
(* key strings to values, a JSON list a sequence, Python's None the        *)
(* absence of the key.                                                     *)
(***************************************************************************)
EXTENDS Integers, Sequences, FiniteSets, TLC

VARIABLES
    status,      \* the process: "idle", "running", "done", "exit1", "crashed"
    entry,       \* the function the process runs: "call_daemon", "main", a routine
    pc,          \* the program point
    caller,      \* the function that invoked call_daemon
    method,      \* call_daemon's argument method
    params,      \* call_daemon's argument params: [isNone, val]
    request,     \* call_daemon's local request
    payload,     \* the bytes handed to sendall
    sent,        \* the bytes the socket delivered to the daemon
    sock,        \* the socket of the current invocation
    nopen,       \* the number of open sockets of the process
    opened,      \* the sockets the current invocation created
    wire,        \* the bytes the daemon writes on this connection
    rpos,        \* how many bytes of wire recv has returned
    response,    \* call_daemon's local response
    split,       \* whether recv has returned the response in more than one chunk
    result,      \* the mapping call_daemon returned
    fault,       \* the exception that ended the process, "" for none
    idLog,       \* the ids of the requests built so far, in order
    out,         \* the lines printed
    readKeys,    \* the keys of result the running routine has read
    calls,       \* call_daemon invocations of the running routine
    startedLog,  \* the methods call_daemon was invoked with, in order
    sentLog,     \* the methods of the requests sendall delivered, in order
    okLog        \* the truth of the success flag of each response returned

frameVars == <<entry, caller, method, params>>
reqVars == <<request, payload, sent>>
sockVars == <<sock, nopen, opened>>
ioVars == <<wire, rpos, response, split>>
uiVars == <<out, readKeys>>
logVars == <<idLog, calls, startedLog, sentLog, okLog>>
vars == <<status, pc, frameVars, reqVars, sockVars, ioVars, result, fault,
          uiVars, logVars>>

----------------------------------------------------------------------------
(* Bounds of the model *)

\* the longest byte string the daemon writes when it writes arbitrary bytes
MaxWire == 4
\* the longest list of entries in a result
MaxEntries == 2

\* recv's buffer size
BUFSIZE == 4096

----------------------------------------------------------------------------
(* JSON values and bytes *)

EmptyMap == [k \in {} |-> ""]

Put(m, k, v) == [j \in DOMAIN m \cup {k} |-> IF j = k THEN v ELSE m[j]]

Has(m, k) == k \in DOMAIN m

\* dict.get(k, default)
Get(m, k, default) == IF k \in DOMAIN m THEN m[k] ELSE default

Tok(c) == [k |-> c, v |-> ""]
Mem(k, v) == [k |-> k, v |-> v]
LB == Tok("{")
RB == Tok("}")
COMMA == Tok(",")
SP == Tok(" ")
NL == Tok("\n")
XFF == Tok("0xff")
Punct == {"{", "}", ",", " ", "\n", "0xff"}

IsWs(b) == b.k \in {" ", "\n"}
IsMember(b) == b.k \notin Punct

HasNL(bytes) == \E i \in 1..Len(bytes) : bytes[i] = NL

\* json.dumps of a mapping whose keys, in insertion order, are keys
RECURSIVE DumpsMembers(_, _)
DumpsMembers(m, keys) ==
    IF keys = <<>> THEN <<>>
    ELSE <<Mem(Head(keys), m[Head(keys)])>>
         \o (IF Tail(keys) = <<>> THEN <<>> ELSE <<COMMA, SP>>)
         \o DumpsMembers(m, Tail(keys))

Dumps(m, keys) == <<LB>> \o DumpsMembers(m, keys) \o <<RB>>

\* bytes.decode(): UTF-8, strict
Decode(bytes) ==
    [fault |-> \E i \in 1..Len(bytes) : bytes[i] = XFF, text |-> bytes]

RECURSIVE LStrip(_)
LStrip(s) == IF s # <<>> /\ IsWs(Head(s)) THEN LStrip(Tail(s)) ELSE s

RECURSIVE RStrip(_)
RStrip(s) ==
    IF s # <<>> /\ IsWs(s[Len(s)]) THEN RStrip(SubSeq(s, 1, Len(s) - 1)) ELSE s

\* str.strip()
Strip(s) == RStrip(LStrip(s))

JsonFault == [fault |-> TRUE, val |-> EmptyMap]

\* The scanner of json.loads over an object: st is what it has just read.
RECURSIVE Scan(_, _, _, _)
Scan(s, i, st, acc) ==
    IF i > Len(s)
    THEN IF st = "end" THEN [fault |-> FALSE, val |-> acc] ELSE JsonFault
    ELSE LET b == s[i] IN
         CASE IsWs(b) -> Scan(s, i + 1, st, acc)
           [] b = XFF -> JsonFault
           [] st = "start" ->
                IF b = LB THEN Scan(s, i + 1, "open", acc) ELSE JsonFault
           [] st = "open" ->
                IF b = RB THEN Scan(s, i + 1, "end", acc)
                ELSE IF IsMember(b)
                     THEN Scan(s, i + 1, "member", Put(acc, b.k, b.v))
                     ELSE JsonFault
           [] st = "member" ->
                IF b = RB THEN Scan(s, i + 1, "end", acc)
                ELSE IF b = COMMA THEN Scan(s, i + 1, "comma", acc)
                     ELSE JsonFault
           [] st = "comma" ->
                IF IsMember(b)
                THEN Scan(s, i + 1, "member", Put(acc, b.k, b.v))
                ELSE JsonFault
           [] OTHER -> JsonFault

\* json.loads
JsonLoads(text) == Scan(text, 1, "start", EmptyMap)

\* the bytes before the first newline, all of them when there is none
RECURSIVE FirstLine(_)
FirstLine(bytes) ==
    IF bytes = <<>> \/ Head(bytes) = NL THEN <<>>
    ELSE <<Head(bytes)>> \o FirstLine(Tail(bytes))

\* a parser that cuts the buffer at its first newline
ParseFirstLineOnly(bytes) ==
    LET d == Decode(FirstLine(bytes)) IN
    IF d.fault THEN JsonFault ELSE JsonLoads(Strip(d.text))

\* json.loads(response.decode().strip())
ParseResponse(bytes) ==
    LET d == Decode(bytes) IN
    IF d.fault THEN JsonFault ELSE JsonLoads(Strip(d.text))

\* Python's truth of result.get("ok")
Truthy(m) == Get(m, "ok", FALSE)

----------------------------------------------------------------------------
(* call_daemon *)

UuidSpace == {"u1", "u2", "u3"}

\* str(uuid.uuid4()): a token no earlier invocation drew
Uuid4 == UuidSpace \ {idLog[i] : i \in 1..Len(idLog)}

NoParams == [isNone |-> TRUE, val |-> EmptyMap]
SomeParams(m) == [isNone |-> FALSE, val |-> m]

\* params or {}
ParamsOrEmpty(p) == IF p.isNone \/ DOMAIN p.val = {} THEN EmptyMap ELSE p.val

RequestKeys == <<"id", "v", "method", "params">>

BuildRequest(u, m, p) ==
    [id |-> u, v |-> 1, method |-> m, params |-> ParamsOrEmpty(p)]

\* an encoding that forgets the newline
EncodeRequestNoNewline(req) == Dumps(req, RequestKeys)

\* (json.dumps(request) + "\n").encode()
EncodeRequest(req) == Dumps(req, RequestKeys) \o <<NL>>

\* a close() after the loop, which an exception skips
WithExitOnReturnOnly(raising) ==
    IF raising THEN UNCHANGED <<sock, nopen>>
    ELSE sock' = "closed" /\ nopen' = nopen - 1

\* the with statement's exit: the socket is closed on return and on raise
WithExit(raising) == sock' = "closed" /\ nopen' = nopen - 1

\* a handler that tries the call again
PropagateRetry(kind) ==
    /\ fault' = kind
    /\ status' = status
    /\ pc' = "call"

\* an exception nothing catches: it leaves call_daemon, its caller and the script
Propagate(kind) ==
    /\ fault' = kind
    /\ status' = "crashed"
    /\ pc' = "raised"

\* lines 21-26: the request is built
CallBuild ==
    /\ status = "running" /\ pc = "call"
    /\ \E u \in Uuid4 :
         /\ request' = BuildRequest(u, method, params)
         /\ idLog' = Append(idLog, u)
    /\ payload' = <<>> /\ sent' = <<>>
    /\ sock' = "none" /\ opened' = 0
    /\ wire' = <<>> /\ rpos' = 0 /\ response' = <<>>
    /\ split' = FALSE
    /\ calls' = calls + 1
    /\ startedLog' = Append(startedLog, method)
    /\ pc' = "socket"
    /\ UNCHANGED <<status, frameVars, nopen, result, fault, uiVars, sentLog,
                   okLog>>

\* line 28: socket.socket(AF_UNIX, SOCK_STREAM)
Socket ==
    /\ status = "running" /\ pc = "socket"
    /\ sock' = "open"
    /\ nopen' = nopen + 1
    /\ opened' = opened + 1
    /\ pc' = "connect"
    /\ UNCHANGED <<status, frameVars, reqVars, ioVars, result, fault, uiVars,
                   logVars>>

\* line 29: sock.connect
Connect ==
    /\ status = "running" /\ pc = "connect"
    /\ \/ /\ sock' = "connected"
          /\ pc' = "send"
          /\ UNCHANGED <<status, fault, nopen>>
       \/ /\ Propagate("ConnectionError")
          /\ WithExit(TRUE)
    /\ UNCHANGED <<frameVars, reqVars, opened, ioVars, result, uiVars, logVars>>

\* line 30: sock.sendall, and line 32; the daemon, given the request, decides
\* what it writes (one of Wires)
SendAll(Wires) ==
    /\ status = "running" /\ pc = "send"
    /\ payload' = EncodeRequest(request)
    /\ \/ /\ sent' = payload'
          /\ sentLog' = Append(sentLog, method)
          /\ \E w \in Wires : wire' = w
          /\ rpos' = 0 /\ response' = <<>> /\ split' = FALSE
          /\ pc' = "recv"
          /\ UNCHANGED <<status, fault, sock, nopen>>
       \/ /\ \E n \in 0..(Len(payload') - 1) : sent' = SubSeq(payload', 1, n)
          /\ Propagate("BrokenPipeError")
          /\ WithExit(TRUE)
          /\ UNCHANGED <<sentLog, ioVars>>
    /\ UNCHANGED <<frameVars, request, opened, result, uiVars, idLog, calls,
                   startedLog, okLog>>

\* what sock.recv(4096) can return: a non-empty run of the bytes not yet read,
\* or b"" when the daemon has written everything and closes; until the daemon
\* closes, recv blocks
RecvChunks ==
    {SubSeq(wire, rpos + 1, rpos + n) :
        n \in {k \in 1..(Len(wire) - rpos) : k <= BUFSIZE}}
    \cup (IF rpos = Len(wire) THEN {<<>>} ELSE {})

\* a single recv, no loop
LoopBreaksAfterOneRecv(chunk, buffer) == TRUE

\* a loop that goes on after b""
LoopBreaksOnNewlineOnly(chunk, buffer) == HasNL(buffer)

\* lines 35-39: the loop ends on b"" and on a newline in the buffer
LoopBreaks(chunk, buffer) == chunk = <<>> \/ HasNL(buffer)

\* lines 33-39: one turn of the read loop, recv returning
Recv ==
    /\ status = "running" /\ pc = "recv"
    /\ \E chunk \in RecvChunks :
         LET buffer == IF chunk = <<>> THEN response ELSE response \o chunk
         IN /\ response' = buffer
            /\ rpos' = rpos + Len(chunk)
            /\ split' = (split \/ (chunk # <<>> /\ response # <<>>))
            /\ pc' = IF LoopBreaks(chunk, buffer) THEN "decode" ELSE "recv"
    /\ UNCHANGED <<status, fault, frameVars, reqVars, sockVars, wire, result,
                   uiVars, logVars>>

\* line 34: recv raising
RecvRaises ==
    /\ status = "running" /\ pc = "recv"
    /\ Propagate("ConnectionResetError")
    /\ WithExit(TRUE)
    /\ UNCHANGED <<frameVars, reqVars, opened, ioVars, result, uiVars, logVars>>

\* line 41: decode, strip, parse, leave the with block, return
Decode41 ==
    /\ status = "running" /\ pc = "decode"
    /\ LET r == ParseResponse(response) IN
       \/ /\ ~r.fault
          /\ result' = r.val
          /\ okLog' = Append(okLog, Truthy(r.val))
          /\ pc' = "ret"
          /\ WithExit(FALSE)
          /\ UNCHANGED <<status, fault>>
       \/ /\ r.fault
          /\ Propagate("DecodeError")
          /\ WithExit(TRUE)
          /\ UNCHANGED <<result, okLog>>
    /\ UNCHANGED <<frameVars, reqVars, opened, ioVars, uiVars, idLog, calls,
                   startedLog, sentLog>>

----------------------------------------------------------------------------
(* call_daemon on its own, against a daemon that writes arbitrary bytes *)

ByteAlphabet == {LB, RB, NL, SP, XFF, Mem("ok", TRUE)}

ByteWires == UNION {[1..n -> ByteAlphabet] : n \in 0..MaxWire}

Init ==
    /\ status = "idle" /\ entry = "none" /\ pc = "idle" /\ caller = "none"
    /\ method = "" /\ params = NoParams
    /\ request = EmptyMap /\ payload = <<>> /\ sent = <<>>
    /\ sock = "none" /\ nopen = 0 /\ opened = 0
    /\ wire = <<>> /\ rpos = 0 /\ response = <<>>
    /\ split = FALSE
    /\ result = EmptyMap /\ fault = ""
    /\ idLog = <<>>
    /\ out = <<>> /\ readKeys = {}
    /\ calls = 0 /\ startedLog = <<>> /\ sentLog = <<>> /\ okLog = <<>>

\* a caller invokes call_daemon("health"), as line 170 does
InvokeCall ==
    /\ status = "idle"
    /\ status' = "running" /\ entry' = "call_daemon" /\ caller' = "harness"
    /\ method' = "health" /\ params' = NoParams
    /\ pc' = "call"
    /\ UNCHANGED <<reqVars, sockVars, ioVars, result, fault, uiVars, logVars>>

\* call_daemon's value reaches that caller
CallReturns ==
    /\ status = "running" /\ pc = "ret" /\ caller = "harness"
    /\ status' = "done" /\ pc' = "end"
    /\ UNCHANGED <<frameVars, reqVars, sockVars, ioVars, result, fault, uiVars,
                   logVars>>

SendAllBytes == SendAll(ByteWires)

NextCall ==
    \/ InvokeCall
    \/ CallBuild
    \/ Socket
    \/ Connect
    \/ SendAllBytes
    \/ Recv
    \/ RecvRaises
    \/ Decode41
    \/ CallReturns

SpecCall == Init /\ [][NextCall]_vars

\* recv returns: data while the daemon writes, b"" once it has closed
FairSpecCall == SpecCall /\ WF_vars(Recv)

----------------------------------------------------------------------------
(* The daemon, as the script meets it: one JSON line per request *)

RECURSIVE SeqsUpTo(_, _)
\* the sequences over S of length at most n
SeqsUpTo(S, n) ==
    IF n = 0 THEN {<<>>}
    ELSE LET shorter == SeqsUpTo(S, n - 1) IN
         shorter \cup {Append(q, e) : q \in shorter, e \in S}

ProjectEntries ==
    {[name |-> "web", framework |-> "nextjs", updatedAt |-> "t1"], EmptyMap}

DeployEntries ==
    {[url |-> "a.vercel.app", state |-> "READY", created |-> "t2",
      meta |-> [githubCommitMessage |-> "fix build"]],
     [url |-> "b.vercel.app", state |-> "ERROR", created |-> "t3"],
     [state |-> "BUILDING", meta |-> EmptyMap],
     [state |-> "QUEUED"],
     [url |-> "c.vercel.app", state |-> "CANCELED"],
     EmptyMap}

LogEntries ==
    {[level |-> "error", message |-> "boom"], [level |-> "debug"], EmptyMap}

DomainEntries ==
    {[name |-> "a.com", verified |-> TRUE], [name |-> "b.com"]}

StatusResults ==
    {[state |-> "READY", url |-> "a.vercel.app", created |-> "t2",
      build |-> [duration |-> "12", status |-> "ok"]],
     [state |-> "ERROR", build |-> EmptyMap],
     [state |-> "BUILDING", build |-> [status |-> "running"]],
     EmptyMap}

\* the result mappings a method's response may carry
Results(m) ==
    CASE m = "vercel.projects" ->
           {EmptyMap} \cup {[projects |-> l] : l \in SeqsUpTo(ProjectEntries, MaxEntries)}
      [] m = "vercel.deployments" ->
           {EmptyMap} \cup {[deployments |-> l] : l \in SeqsUpTo(DeployEntries, MaxEntries)}
      [] m = "vercel.logs" ->
           {EmptyMap} \cup {[logs |-> l] : l \in SeqsUpTo(LogEntries, MaxEntries)}
      [] m = "vercel.domains" ->
           {EmptyMap} \cup {[domains |-> l] : l \in SeqsUpTo(DomainEntries, MaxEntries)}
      [] m = "vercel.status" -> StatusResults
      [] OTHER -> {EmptyMap}

\* the response mappings: success with or without a result, failure with or
\* without an error, and a mapping with no success flag
Responses(m) ==
    {[ok |-> TRUE, result |-> r] : r \in Results(m)}
    \cup {[ok |-> TRUE], [ok |-> FALSE, error |-> "rate limited"],
          [ok |-> FALSE], EmptyMap}

ResponseKeys(r) ==
    (IF Has(r, "ok") THEN <<"ok">> ELSE <<>>)
    \o (IF Has(r, "result") THEN <<"result">> ELSE <<>>)
    \o (IF Has(r, "error") THEN <<"error">> ELSE <<>>)

\* what the daemon writes: a response and a newline, a response the newline of
\* which never comes, or nothing
DaemonWires(m) ==
    {Dumps(r, ResponseKeys(r)) \o <<NL>> : r \in Responses(m)}
    \cup {Dumps([ok |-> TRUE, result |-> EmptyMap], <<"ok", "result">>), <<>>}

----------------------------------------------------------------------------
(* The presentation routines and the script *)

Routines ==
    {"list_projects", "list_deployments", "get_deployment_logs",
     "get_deployment_status", "list_domains"}

Line(kind, a, b) == [kind |-> kind, a |-> a, b |-> b]

\* str() of a value that .get() found absent
None == "None"

\* a slice [:50] of a string; the strings of the model are shorter than 50
Slice50(str) == str

\* what a routine's body yields: the exception it raises ("" for none), the
\* lines it prints before that, and the keys of result it reads
Shown(flt, lines, reads) == [fault |-> flt, lines |-> lines, reads |-> reads]

\* an error branch that subscripts: result["error"]
ShowErrorSubscript(res) ==
    IF Has(res, "error")
    THEN Shown("", <<Line("error", res["error"], "")>>, {"ok", "error"})
    ELSE Shown("KeyError", <<>>, {"ok", "error"})

\* lines 62, 97, 119, 144, 162: print(f"  Error: {result.get('error')}")
ShowError(res) ==
    Shown("", <<Line("error", Get(res, "error", None), "")>>, {"ok", "error"})

\* result["result"]: a KeyError when the key is absent; lines are what the
\* routine prints from the value (the empty mapping stands in when it is absent)
Subscript(res) == Get(res, "result", EmptyMap)

WithResult(res, lines) ==
    IF Has(res, "result")
    THEN Shown("", lines, {"ok", "result"})
    ELSE Shown("KeyError", <<>>, {"ok", "result"})

\* if not entries: print(f"  No {what} found")
IfEmpty(entries, what) ==
    IF entries = <<>> THEN <<Line("empty", what, "")>> ELSE <<>>

\* lines 56-60
ProjectLines(project) ==
    <<Line("project", Get(project, "name", None), ""),
      Line("framework", Get(project, "framework", "unknown"), ""),
      Line("updated", Get(project, "updatedAt", "unknown"), ""),
      Line("blank", "", "")>>

RECURSIVE EachProject(_)
\* the for loop: the lines of each entry, entry after entry
EachProject(entries) ==
    IF entries = <<>> THEN <<>>
    ELSE ProjectLines(Head(entries)) \o EachProject(Tail(entries))

\* lines 52-60
ProjectsBody(r) ==
    LET projects == Get(r, "projects", <<>>) IN
    IfEmpty(projects, "projects") \o EachProject(projects)

\* lines 51-62
ShowProjects(res) ==
    IF Truthy(res) THEN WithResult(res, ProjectsBody(Subscript(res)))
    ELSE ShowError(res)

\* a table in which BUILDING has no entry
StateIconNoBuilding(state) ==
    CASE state = "READY" -> "green"
      [] state = "ERROR" -> "red"
      [] OTHER -> "white"

\* lines 83-88: the lookup table and its default
StateIcon(state) ==
    CASE state = "READY" -> "green"
      [] state = "ERROR" -> "red"
      [] state = "BUILDING" -> "yellow"
      [] state = "QUEUED" -> "white"
      [] OTHER -> "white"

\* lines 82-95
DeployLines(deploy) ==
    LET state == Get(deploy, "state", "unknown")
        meta == Get(deploy, "meta", EmptyMap)
    IN <<Line("deploy", StateIcon(state), Get(deploy, "url", "no-url")),
         Line("state", state, ""),
         Line("created", Get(deploy, "created", "unknown"), "")>>
       \o (IF Has(meta, "githubCommitMessage")
           THEN <<Line("commit", Slice50(deploy["meta"]["githubCommitMessage"]), "...")>>
           ELSE <<>>)
       \o <<Line("blank", "", "")>>

RECURSIVE EachDeploy(_)
\* the for loop: the lines of each entry, entry after entry
EachDeploy(entries) ==
    IF entries = <<>> THEN <<>>
    ELSE DeployLines(Head(entries)) \o EachDeploy(Tail(entries))

\* lines 78-95
DeploymentsBody(r) ==
    LET deployments == Get(r, "deployments", <<>>) IN
    IfEmpty(deployments, "deployments") \o EachDeploy(deployments)

\* lines 77-97
ShowDeployments(res) ==
    IF Truthy(res) THEN WithResult(res, DeploymentsBody(Subscript(res)))
    ELSE ShowError(res)

\* line 116
LevelIcon(level) ==
    CASE level = "error" -> "cross"
      [] level = "warn" -> "warning"
      [] level = "info" -> "info"
      [] OTHER -> "bullet"

\* lines 115-117
LogLines(log) ==
    <<Line("log", LevelIcon(Get(log, "level", "info")), Get(log, "message", ""))>>

RECURSIVE EachLog(_)
\* the for loop: the lines of each entry, entry after entry
EachLog(entries) ==
    IF entries = <<>> THEN <<>>
    ELSE LogLines(Head(entries)) \o EachLog(Tail(entries))

\* lines 111-117
LogsBody(r) ==
    LET logs == Get(r, "logs", <<>>) IN IfEmpty(logs, "logs") \o EachLog(logs)

\* lines 110-119
ShowLogs(res) ==
    IF Truthy(res) THEN WithResult(res, LogsBody(Subscript(res)))
    ELSE ShowError(res)

\* lines 130-142
StatusLines(st) ==
    LET state == Get(st, "state", "unknown")
        icon == IF state = "READY" THEN "green"
                ELSE IF state = "ERROR" THEN "red" ELSE "yellow"
        build == Get(st, "build", EmptyMap)
    IN <<Line("status", icon, state),
         Line("url", Get(st, "url", None), ""),
         Line("created", Get(st, "created", None), "")>>
       \o (IF DOMAIN build # {}
           THEN <<Line("build", "", ""),
                  Line("duration", Get(build, "duration", "unknown"), "ms"),
                  Line("buildstatus", Get(build, "status", None), "")>>
           ELSE <<>>)

\* lines 129-144
ShowStatus(res) ==
    IF Truthy(res) THEN WithResult(res, StatusLines(Subscript(res)))
    ELSE ShowError(res)

\* lines 159-160
DomainLines(domain) ==
    <<Line("domain", IF Get(domain, "verified", FALSE) THEN "check" ELSE "cross",
           Get(domain, "name", None))>>

RECURSIVE EachDomain(_)
\* the for loop: the lines of each entry, entry after entry
EachDomain(entries) ==
    IF entries = <<>> THEN <<>>
    ELSE DomainLines(Head(entries)) \o EachDomain(Tail(entries))

\* lines 155-160
DomainsBody(r) ==
    LET domains == Get(r, "domains", <<>>) IN
    IfEmpty(domains, "domains") \o EachDomain(domains)

\* lines 154-162
ShowDomains(res) ==
    IF Truthy(res) THEN WithResult(res, DomainsBody(Subscript(res)))
    ELSE ShowError(res)

\* a routine starts, called by the script at point `at` or on its own: it
\* prints its title and rule and invokes call_daemon(m, p)
Begin(name, at, title, m, p) ==
    /\ \/ /\ status = "idle"
          /\ status' = "running" /\ entry' = name
       \/ /\ status = "running" /\ entry = "main" /\ pc = at
          /\ UNCHANGED <<status, entry>>
    /\ caller' = name /\ method' = m /\ params' = p
    /\ out' = out \o <<title, Line("rule", "", "")>>
    /\ readKeys' = {} /\ result' = EmptyMap /\ calls' = 0
    /\ pc' = "call"
    /\ UNCHANGED <<reqVars, sockVars, ioVars, fault, idLog, startedLog,
                   sentLog, okLog>>

\* call_daemon's value reaches the routine, which prints it and returns, to
\* the script at point `next` when the script called it
Finish(name, next, s) ==
    /\ status = "running" /\ pc = "ret" /\ caller = name
    /\ /\ out' = out \o s.lines
       /\ readKeys' = s.reads
       /\ IF s.fault # "" THEN Propagate(s.fault)
          ELSE /\ fault' = fault
               /\ IF entry = "main"
                  THEN pc' = next /\ status' = status
                  ELSE pc' = "end" /\ status' = "done"
    /\ UNCHANGED <<frameVars, reqVars, sockVars, ioVars, result, logVars>>

\* lines 44-49
list_projects_call ==
    Begin("list_projects", "line179", Line("title", "Vercel Projects", ""),
          "vercel.projects", SomeParams(EmptyMap))

\* lines 51-62
list_projects_show == Finish("list_projects", "line180", ShowProjects(result))

\* lines 65-75: list_deployments(limit=5) from the script, and
\* list_deployments("web", limit=3) as line 183 has it
list_deployments_call ==
    \E a \in {[project_name |-> "", limit |-> 5],
              [project_name |-> "web", limit |-> 3]} :
        /\ (status = "running") => (a.project_name = "")
        /\ Begin("list_deployments", "line180",
                 Line("title", "Recent Deployments",
                      IF a.project_name # "" THEN "for web" ELSE ""),
                 "vercel.deployments",
                 SomeParams(IF a.project_name # ""
                            THEN [limit |-> a.limit, project |-> a.project_name]
                            ELSE [limit |-> a.limit]))

\* lines 77-97
list_deployments_show == Finish("list_deployments", "end", ShowDeployments(result))

\* lines 100-108
get_deployment_logs_call ==
    /\ status = "idle"
    /\ Begin("get_deployment_logs", "never", Line("title", "Logs", "dpl_x"),
             "vercel.logs", SomeParams([deployment_id |-> "dpl_x", limit |-> 50]))

\* lines 110-119
get_deployment_logs_show == Finish("get_deployment_logs", "end", ShowLogs(result))

\* lines 122-127
get_deployment_status_call ==
    /\ status = "idle"
    /\ Begin("get_deployment_status", "never",
             Line("title", "Deployment Status", "dpl_x"),
             "vercel.status", SomeParams([deployment_id |-> "dpl_x"]))

\* lines 129-144
get_deployment_status_show == Finish("get_deployment_status", "end", ShowStatus(result))

\* lines 147-152
list_domains_call ==
    /\ status = "idle"
    /\ Begin("list_domains", "never", Line("title", "Domains", "web"),
             "vercel.domains", SomeParams([project |-> "web"]))

\* lines 154-162
list_domains_show == Finish("list_domains", "end", ShowDomains(result))

\* lines 165-170: the script starts and asks for the daemon's health
main_health ==
    /\ status = "idle"
    /\ status' = "running" /\ entry' = "main" /\ caller' = "main"
    /\ method' = "health" /\ params' = NoParams
    /\ out' = out \o <<Line("title", "Vercel Daemon Examples", ""),
                       Line("rule", "", "")>>
    /\ readKeys' = {} /\ result' = EmptyMap /\ calls' = 0
    /\ pc' = "call"
    /\ UNCHANGED <<reqVars, sockVars, ioVars, fault, idLog, startedLog,
                   sentLog, okLog>>

\* a gate that only asks whether the flag is there
NotHealthyWhenNoFlag(health) == ~Has(health, "ok")

\* line 171: not health.get("ok")
NotHealthy(health) == ~Truthy(health)

\* lines 171-176: exit(1) unless the daemon is healthy
main_gate ==
    /\ status = "running" /\ pc = "ret" /\ caller = "main"
    /\ readKeys' = {"ok"}
    /\ IF NotHealthy(result)
       THEN /\ out' = out \o <<Line("unhealthy", "", ""), Line("hint", "", "")>>
            /\ status' = "exit1" /\ pc' = "exit"
       ELSE /\ out' = out \o <<Line("healthy", "", "")>>
            /\ status' = status /\ pc' = "line179"
    /\ UNCHANGED <<frameVars, reqVars, sockVars, ioVars, result, fault, logVars>>

\* line 186: the script ends
main_end ==
    /\ status = "running" /\ entry = "main" /\ pc = "end"
    /\ status' = "done" /\ pc' = "exited"
    /\ UNCHANGED <<frameVars, reqVars, sockVars, ioVars, result, fault, uiVars,
                   logVars>>

SendAllDaemon == SendAll(DaemonWires(method))

Next ==
    \/ main_health
    \/ main_gate
    \/ main_end
    \/ list_projects_call
    \/ list_projects_show
    \/ list_deployments_call
    \/ list_deployments_show
    \/ get_deployment_logs_call
    \/ get_deployment_logs_show
    \/ get_deployment_status_call
    \/ get_deployment_status_show
    \/ list_domains_call
    \/ list_domains_show
    \/ CallBuild
    \/ Socket
    \/ Connect
    \/ SendAllDaemon
    \/ Recv
    \/ RecvRaises
    \/ Decode41

Spec == Init /\ [][Next]_vars

----------------------------------------------------------------------------
(* Claims about call_daemon's read loop *)

Returned == status \in {"running", "done"} /\ pc \in {"ret", "end"}
DecodeFaulted == status = "crashed" /\ fault = "DecodeError"
\* the call came back from line 41, with a value or with a decode fault
Decoded == Returned \/ DecodeFaulted

NewlineTerminated(bytes) == bytes # <<>> /\ bytes[Len(bytes)] = NL
OnlyFinalNL(bytes) ==
    NewlineTerminated(bytes) /\ ~HasNL(SubSeq(bytes, 1, Len(bytes) - 1))
EncodesMapping(bytes) == ~ParseResponse(bytes).fault
AfterFirstLine(bytes) == SubSeq(bytes, Len(FirstLine(bytes)) + 1, Len(bytes))
AllWs(bytes) == \A i \in 1..Len(bytes) : IsWs(bytes[i])

\* C1 as stated: whatever newline-terminated bytes encode a JSON mapping, and
\* however recv splits them, call_daemon returns that mapping.
C1_AnyNewlineTerminatedResponse ==
    (Decoded /\ NewlineTerminated(wire) /\ EncodesMapping(wire))
        => (Returned /\ result = ParseResponse(wire).val)

\* C1, amended: when the response's only newline is its last byte and it
\* encodes a JSON mapping, then however recv splits it call_daemon reads all of
\* it before it decodes, and returns that mapping.
C1_SingleLineRoundTrip ==
    (OnlyFinalNL(wire) /\ EncodesMapping(wire))
        => /\ (pc = "decode" \/ Decoded) => response = wire
           /\ Decoded => (Returned /\ result = ParseResponse(wire).val)

C1_Witness ==
    /\ Returned /\ OnlyFinalNL(wire) /\ split
    /\ Has(result, "ok") /\ result = ParseResponse(wire).val

C10_FirstLineDecidesValue ==
    (Decoded /\ HasNL(wire) /\ EncodesMapping(FirstLine(wire)))
        => (Returned /\ result = ParseResponse(FirstLine(wire)).val)

\* C10, amended: call_daemon never reads again once the buffer holds a
\* newline, so bytes in later chunks are not read, and it decodes the whole
\* buffer: when the bytes before the first newline encode a mapping, it returns
\* that mapping if the bytes that came after the newline in the same chunk are
\* all whitespace, and raises a decode fault otherwise.
C10_StopsAtNewlineDecodesBuffer ==
    /\ pc = "recv" => ~HasNL(response)
    /\ (Decoded /\ HasNL(wire)) =>
         /\ HasNL(response)
         /\ response = SubSeq(wire, 1, rpos)
         /\ Returned => result = ParseResponse(response).val
         /\ DecodeFaulted => ParseResponse(response).fault
         /\ EncodesMapping(FirstLine(wire)) =>
              IF AllWs(AfterFirstLine(response))
              THEN Returned /\ result = ParseResponse(FirstLine(wire)).val
              ELSE DecodeFaulted

C10_Witness ==
    /\ Returned /\ HasNL(wire) /\ rpos < Len(wire)
    /\ ~AllWs(AfterFirstLine(wire)) /\ AllWs(AfterFirstLine(response))

----------------------------------------------------------------------------
(* Claims about the connection, the request and the script *)

InCall == status = "running" /\ pc \in {"connect", "send", "recv", "decode"}
\* an invocation of call_daemon has returned or raised
CallOver ==
    /\ startedLog # <<>>
    /\ ~InCall
    /\ ~(status = "running" /\ pc \in {"call", "socket"})

\* C3: an invocation creates one socket, which is closed when the invocation
\* returns or raises, whichever way it ends; no call is over with its socket
\* open and no two sockets are open together.
C3_OneConnectionAlwaysClosed ==
    /\ nopen \in {0, 1} /\ opened \in {0, 1}
    /\ nopen = 1 => InCall
    /\ CallOver => (opened = 1 /\ sock = "closed" /\ nopen = 0)

C3_Witness ==
    /\ status = "crashed" /\ fault = "ConnectionResetError" /\ response # <<>>
    /\ opened = 1 /\ sock = "closed" /\ nopen = 0

IsPrefix(a, b) == Len(a) <= Len(b) /\ a = SubSeq(b, 1, Len(a))

\* C6: the bytes handed to sendall are one JSON object and then one newline,
\* the only one; the object's keys are id, v, method and params, with v = 1,
\* method and params the arguments (the empty mapping for no params) and id a
\* non-empty token no earlier invocation used; sendall delivers those bytes.
C6_RequestLine ==
    /\ \A i, j \in 1..Len(idLog) : i # j => idLog[i] # idLog[j]
    /\ \A i \in 1..Len(idLog) : idLog[i] # ""
    /\ IsPrefix(sent, payload)
    /\ (status = "running" /\ pc \in {"recv", "decode", "ret"}) => sent = payload
    /\ (payload # <<>> /\ ~(status = "running" /\ pc = "call")) =>
         LET body == SubSeq(payload, 1, Len(payload) - 1)
             r == JsonLoads(body)
         IN /\ payload[Len(payload)] = NL
            /\ ~HasNL(body)
            /\ ~r.fault
            /\ DOMAIN r.val = {"id", "v", "method", "params"}
            /\ r.val["v"] = 1
            /\ r.val["method"] = method
            /\ r.val["params"] = (IF params.isNone THEN EmptyMap ELSE params.val)
            /\ r.val["id"] = idLog[Len(idLog)]

C6_Witness ==
    /\ entry = "main" /\ method = "vercel.deployments" /\ Len(idLog) = 3
    /\ pc = "recv" /\ sent = payload /\ payload # <<>>

\* C7: a presentation routine invokes call_daemon once; nothing is tried
\* again after a fault or a failure response, so a routine run on its own
\* opens one socket and sends at most one request; and within an invocation
\* the whole request is sent before anything is read.
C7_OneCallNoRetry ==
    /\ calls \in {0, 1}
    /\ (caller \in Routines /\ ~(status = "running" /\ pc = "call")) => calls = 1
    /\ entry \in Routines => (Len(startedLog) <= 1 /\ Len(sentLog) <= 1)
    /\ Len(sentLog) <= Len(startedLog)
    /\ \A i, j \in 1..Len(startedLog) : i # j => startedLog[i] # startedLog[j]
    /\ (InCall /\ pc \in {"recv", "decode"}) =>
         (sent = payload /\ payload = EncodeRequest(request))
    /\ (rpos > 0 \/ response # <<>>) => sent = payload

C7_Witness ==
    /\ entry = "get_deployment_logs" /\ status = "crashed"
    /\ fault = "DecodeError" /\ calls = 1 /\ Len(sentLog) = 1

MainOrder == <<"health", "vercel.projects", "vercel.deployments">>

\* C8: the script's first request is health; a health response without a true
\* success flag ends the script with status 1 and no other request; projects
\* and then deployments are requested only after a healthy response, and a
\* failure response to projects does not stop the deployments request.
C8_HealthGatesTheScript ==
    entry = "main" =>
        /\ IsPrefix(startedLog, MainOrder) /\ IsPrefix(sentLog, MainOrder)
        /\ Len(startedLog) >= 2 => (okLog # <<>> /\ okLog[1])
        /\ (okLog = <<FALSE>> /\ pc # "ret") => status = "exit1"
        /\ status = "exit1" =>
             (okLog = <<FALSE>> /\ sentLog = <<"health">>
              /\ startedLog = <<"health">>)
        /\ status = "done" => sentLog = MainOrder
        /\ (Len(okLog) >= 2 /\ ~okLog[2] /\ status # "running") =>
             /\ startedLog = MainOrder
             /\ fault \notin {"ConnectionError", "BrokenPipeError"}
                  => sentLog = MainOrder

C8_Witness ==
    /\ entry = "main" /\ status = "done" /\ Len(okLog) = 3 /\ ~okLog[2]
    /\ sentLog = MainOrder

----------------------------------------------------------------------------
(* Claims about the presentation routines *)

\* the routine has run its body on call_daemon's value: it returned, or raised
RoutineOver ==
    /\ caller \in Routines
    /\ \/ status \in {"running", "done"} /\ pc \in {"line180", "end", "exited"}
       \/ status = "crashed" /\ fault = "KeyError"

\* C4: on a mapping whose success flag is false a routine prints the error
\* field, does not read the result field, and returns.
C4_FailureShownAndReturned ==
    (RoutineOver /\ ~Truthy(result)) =>
        /\ fault = "" /\ status # "crashed"
        /\ out[Len(out)] = Line("error", Get(result, "error", None), "")
        /\ "result" \notin readKeys

C4_Witness ==
    /\ RoutineOver /\ caller = "get_deployment_status" /\ status = "done"
    /\ Has(result, "ok") /\ ~Truthy(result) /\ ~Has(result, "error")
    /\ out[Len(out)] = Line("error", None, "")

\* C5 as stated: on a mapping whose success flag is true no absent key makes a
\* routine raise, and an empty collection is shown as "no results".
C5_AbsentKeysNeverFault ==
    (RoutineOver /\ Truthy(result)) =>
        /\ fault = "" /\ status # "crashed"
        /\ (caller = "list_projects"
            /\ Get(Get(result, "result", EmptyMap), "projects", <<>>) = <<>>)
             => out[Len(out)] = Line("empty", "projects", "")

IsDeployLine(l) == l.kind = "deploy"

\* the marker the table designates for a state
Designated(state) ==
    IF state = "READY" THEN "green"
    ELSE IF state = "ERROR" THEN "red"
    ELSE IF state = "BUILDING" THEN "yellow"
    ELSE "white"

\* C9: list_deployments prints one marker line per entry, in the daemon's
\* order, each with the marker the table designates for the entry's state and
\* the default marker for a state the table lacks or an absent state.
C9_MarkersFollowTheTable ==
    (RoutineOver /\ caller = "list_deployments" /\ Truthy(result)
     /\ Has(result, "result")) =>
        LET deployments == Get(result["result"], "deployments", <<>>)
            printed == SelectSeq(out, IsDeployLine)
        IN /\ Len(printed) = Len(deployments)
           /\ \A i \in 1..Len(deployments) :
                /\ printed[i].a =
                     (IF Has(deployments[i], "state")
                      THEN Designated(deployments[i]["state"])
                      ELSE "white")
                /\ printed[i].b = Get(deployments[i], "url", "no-url")

C9_Witness ==
    /\ RoutineOver /\ caller = "list_deployments" /\ status = "done"
    /\ Truthy(result) /\ Has(result, "result")
    /\ Get(result["result"], "deployments", <<>>)
         = <<[state |-> "BUILDING", meta |-> EmptyMap], EmptyMap>>
    /\ SelectSeq(out, IsDeployLine)
         = <<Line("deploy", "yellow", "no-url"), Line("deploy", "white", "no-url")>>

====
